---- MODULE Spec2Model ----
(***************************************************************************)
(* Model of trio_binning/find_unique_kmers.py.                             *)
(*                                                                         *)
(* The module's entry points are main() and the four stage functions       *)
(* run_kmc, analyze_histogram, run_kmc_subtract and run_kmc_dump.  A       *)
(* process p runs one entry point; its position is pc[p].  The external    *)
(* programs (kmc, kmc_tools, kmc_dump) are the environment: every          *)
(* check_call ends "ok", "nonzero" (CalledProcessError) or "notfound"      *)
(* (FileNotFoundError).  The scratch directory is the map scratch from     *)
(* the random integer that names a temporary file to the file's content.   *)
(*                                                                         *)
(* Pass-through arguments that no decision depends on (k, threads, the     *)
(* kmc path prefix, the directory names) are left out of the commands.     *)
(***************************************************************************)
EXTENDS Integers, Sequences, FiniteSets, TLC

\* ------------------------------------------------------------------ bounds
MaxLen   == 4      \* longest histogram (lines of the histogram file)
MaxCnt   == 2      \* largest count in a histogram line
MaxStart == 3      \* largest coverage of the first histogram line
MaxRand  == 1      \* stands for 9999999, the top of both random.randint ranges
MaxArg   == 2      \* largest value of --count_lower / --count_upper
MaxKCount == 2     \* largest k-mer count in a database

\* ------------------------------------------------------- program constants
KmcRandLow      == 0     \* random.randint(0, 9999999) in run_kmc
HistoRandLow    == 1     \* random.randint(1, 9999999) in analyze_histogram
InitLastCount   == 0 - 1 \* last_count = -1
SkipCoverage    == 2     \* if coverage != 2
NarrowGap       == 5     \* if max_coverage - min_coverage < 5
PyFalse         == 0     \* min_coverage, max_coverage = False, False (False == 0, both falsy)
ExitStatus      == 1     \* sys.exit(1)

Procs  == {1, 2}
Kmers  == {"AAC", "ACG"}
\* Steps between the coverage values of consecutive histogram lines: the next
\* integer, or one coverage value left out.
Gaps   == {1, 2}
NoPath == 0 - 1

VARIABLES
    entry,                 \* entry[p]: the entry point process p runs
    pc,                    \* pc[p]: position of process p
    args,                  \* args[p]: the Namespace parse_args returned (count_lower, count_upper)
    call,                  \* call[p]: arguments of the stage function being run
    hist,                  \* the histogram kmc_tools wrote for the database
    scratch,               \* scratch[n]: content of the scratch-dir file named n
    kdb,                   \* kdb[path]: k-mer -> count of the database at path (0: absent)
    outfiles,              \* outfiles[path]: lines (k-mers) of a dump text file
    paths_list_file_path,  \* run_kmc's local, per process
    temp_histogram_path,   \* analyze_histogram's local, per process
    kmc_databases,         \* main's list, per process
    check_call_result,     \* how the last check_call of the process ended
    invoked,               \* invoked[p]: external commands the process has started
    stderr,                \* stderr[p]: messages the process has printed
    outcome                \* outcome[p]: how the entry point ended

vars == <<entry, pc, args, call, hist, scratch, kdb, outfiles,
          paths_list_file_path, temp_histogram_path, kmc_databases,
          check_call_result, invoked, stderr, outcome>>

\* ------------------------------------------------------------------ values
Absent       == [kind |-> "absent", owner |-> 0]
PathsList(p) == [kind |-> "paths", owner |-> p]
HistoFile(p) == [kind |-> "histogram", owner |-> p]

Cmd(tool, db, db2, out, file, lo, hi) ==
    [tool |-> tool, db |-> db, db2 |-> db2, out |-> out, file |-> file, lo |-> lo, hi |-> hi]
NoCmd == Cmd("none", "", "", "", NoPath, 0 - 1, 0 - 1)

\* kmc_cmd = [kmc_path, -k, -t, "@" + paths_list_file_path, outfile_path, scratch_dir]
KmcCmd(path, outfile) == Cmd("kmc", outfile, "", "", path, 0 - 1, 0 - 1)
\* histo_cmd = [kmc_path + "_tools", "transform", kmc_db, "histogram", temp_histogram_path]
HistoCmd(db, path) == Cmd("kmc_tools transform histogram", db, "", "", path, 0 - 1, 0 - 1)
\* subtract_cmd = [kmc_cmd + "_tools", "simple", kmc_db_a, kmc_db_b, "kmers_subtract", out_path]
SubtractCmd(a, b, out) == Cmd("kmc_tools simple kmers_subtract", a, b, out, NoPath, 0 - 1, 0 - 1)
\* DumpCmd with the two bounds exchanged: "-ci" + max_count, "-cx" + min_count.
DumpCmd_SwappedBounds(db, out, lo, hi) == Cmd("kmc_dump", db, "", out, NoPath, hi, lo)
\* dump_cmd = [kmc_cmd + "_dump", "-ci" + min_count, "-cx" + max_count, kmc_db, out_path]
DumpCmd(db, out, lo, hi) == Cmd("kmc_dump", db, "", out, NoPath, lo, hi)

Outcome(kind, lo, hi, cmd, path, num, status) ==
    [kind |-> kind, min |-> lo, max |-> hi, cmd |-> cmd, path |-> path, num |-> num, status |-> status]
NoOutcome == Outcome("none", 0, 0, NoCmd, "", 0 - 1, 0 - 1)
Raised(kind) == Outcome(kind, 0, 0, NoCmd, "", 0 - 1, 0 - 1)
\* HistogramError(histo_cmd): the message embeds the command
HistogramError(histo_cmd) == Outcome("HistogramError", 0, 0, histo_cmd, "", 0 - 1, 0 - 1)
SystemExit(status) == Outcome("SystemExit", 0, 0, NoCmd, "", 0 - 1, status)

CheckCallResults == {"ok", "nonzero", "notfound"}

\* The attributes of the Namespace parse_args returns: argparse derives each
\* from the first long option string ("-l", "--count_lower" gives count_lower).
NamespaceAttrs == {"kmer_size", "count_lower", "count_upper", "path_to_kmc",
                   "threads", "outpath", "scratch_dir", "read_files"}

DefaultArgs == [count_lower |-> 0, count_upper |-> 0]
ArgSet      == [count_lower : 0..MaxArg, count_upper : 0..MaxArg]

DbPaths  == {"haplotypeA", "haplotypeB", "haplotypeA_only", "haplotypeB_only"}
OutPaths == {"hapA_only_kmers.txt", "hapB_only_kmers.txt"}
EmptyDb  == [k \in Kmers |-> 0]
Dbs      == [Kmers -> 0..MaxKCount]
NoCall   == [kmc_db |-> "", kmc_db_b |-> "", out_path |-> "", min_count |-> 0, max_count |-> 0]

\* -------------------------------------------------------------- histograms
\* A histogram is a sequence of <<coverage, count>> lines, coverage >= 0 and
\* strictly increasing, count >= 0.
RECURSIVE CovAt(_, _, _)
CovAt(s, g, i) == IF i = 1 THEN s ELSE CovAt(s, g, i - 1) + g[i - 1]

\* The histogram of n lines that starts at coverage s, steps by g[i] from line
\* i to line i + 1 and has the counts c.
HistogramOf(n, s, g, c) == [i \in 1..n |-> <<CovAt(s, g, i), c[i]>>]

Cov(h, i) == h[i][1]
Cnt(h, i) == h[i][2]

\* ------------------------------------------------- analyze_histogram's scan
Truthy(x) == x # PyFalse

ScanInit == [min_coverage |-> PyFalse, max_coverage |-> PyFalse,
             min_coverage_count |-> InitLastCount, last_count |-> InitLastCount,
             broke |-> FALSE]

\* ScanLine with the trough placed at the rising entry: min_coverage = coverage.
ScanLine_MinAtRise(st, line) ==
    LET coverage == line[1]
        count    == line[2]
    IN  IF coverage # SkipCoverage
        THEN IF ~Truthy(st.min_coverage)
             THEN IF count > st.last_count
                  THEN [st EXCEPT !.min_coverage = coverage,
                                  !.min_coverage_count = st.last_count,
                                  !.last_count = count]
                  ELSE [st EXCEPT !.last_count = count]
             ELSE IF ~Truthy(st.max_coverage)
                  THEN IF count < st.min_coverage_count
                       THEN [st EXCEPT !.max_coverage = coverage, !.broke = TRUE]
                       ELSE [st EXCEPT !.last_count = count]
                  ELSE [st EXCEPT !.last_count = count]
        ELSE [st EXCEPT !.last_count = count]

\* ScanLine with the upper bound taken where the count reaches the trough's
\* count instead of dipping below it: count <= min_coverage_count.
ScanLine_DipOrEqual(st, line) ==
    LET coverage == line[1]
        count    == line[2]
    IN  IF coverage # SkipCoverage
        THEN IF ~Truthy(st.min_coverage)
             THEN IF count > st.last_count
                  THEN [st EXCEPT !.min_coverage = coverage - 1,
                                  !.min_coverage_count = st.last_count,
                                  !.last_count = count]
                  ELSE [st EXCEPT !.last_count = count]
             ELSE IF ~Truthy(st.max_coverage)
                  THEN IF count <= st.min_coverage_count
                       THEN [st EXCEPT !.max_coverage = coverage, !.broke = TRUE]
                       ELSE [st EXCEPT !.last_count = count]
                  ELSE [st EXCEPT !.last_count = count]
        ELSE [st EXCEPT !.last_count = count]

\* ScanLine without the test of line 139: the line for coverage 2 is compared
\* like every other line.
ScanLine_NoSkip(st, line) ==
    LET coverage == line[1]
        count    == line[2]
    IN  IF TRUE
        THEN IF ~Truthy(st.min_coverage)
             THEN IF count > st.last_count
                  THEN [st EXCEPT !.min_coverage = coverage - 1,
                                  !.min_coverage_count = st.last_count,
                                  !.last_count = count]
                  ELSE [st EXCEPT !.last_count = count]
             ELSE IF ~Truthy(st.max_coverage)
                  THEN IF count < st.min_coverage_count
                       THEN [st EXCEPT !.max_coverage = coverage, !.broke = TRUE]
                       ELSE [st EXCEPT !.last_count = count]
                  ELSE [st EXCEPT !.last_count = count]
        ELSE [st EXCEPT !.last_count = count]

\* ScanLine with the skipped coverage off by one: if coverage != 1.
ScanLine_SkipFirstCoverage(st, line) ==
    LET coverage == line[1]
        count    == line[2]
    IN  IF coverage # 1
        THEN IF ~Truthy(st.min_coverage)
             THEN IF count > st.last_count
                  THEN [st EXCEPT !.min_coverage = coverage - 1,
                                  !.min_coverage_count = st.last_count,
                                  !.last_count = count]
                  ELSE [st EXCEPT !.last_count = count]
             ELSE IF ~Truthy(st.max_coverage)
                  THEN IF count < st.min_coverage_count
                       THEN [st EXCEPT !.max_coverage = coverage, !.broke = TRUE]
                       ELSE [st EXCEPT !.last_count = count]
                  ELSE [st EXCEPT !.last_count = count]
        ELSE [st EXCEPT !.last_count = count]

\* One iteration of the for loop over the histogram file.
ScanLine(st, line) ==
    LET coverage == line[1]
        count    == line[2]
    IN  IF coverage # SkipCoverage
        THEN IF ~Truthy(st.min_coverage)
             THEN IF count > st.last_count
                  THEN [st EXCEPT !.min_coverage = coverage - 1,
                                  !.min_coverage_count = st.last_count,
                                  !.last_count = count]
                  ELSE [st EXCEPT !.last_count = count]
             ELSE IF ~Truthy(st.max_coverage)
                  THEN IF count < st.min_coverage_count
                       THEN [st EXCEPT !.max_coverage = coverage, !.broke = TRUE]
                       ELSE [st EXCEPT !.last_count = count]
                  ELSE [st EXCEPT !.last_count = count]
        ELSE [st EXCEPT !.last_count = count]

RECURSIVE ScanFrom(_, _, _)
ScanFrom(st, lines, i) ==
    IF i > Len(lines) \/ st.broke THEN st
    ELSE ScanFrom(ScanLine(st, lines[i]), lines, i + 1)

Scan(lines) == ScanFrom(ScanInit, lines, 1)

\* ------------------------------------------------------------------- Init
Entries == {"main", "run_kmc", "analyze_histogram", "run_kmc_subtract", "run_kmc_dump"}

FirstPc(e) ==
    CASE e = "main"              -> "main_count"
      [] e = "run_kmc"           -> "kmc_write"
      [] e = "analyze_histogram" -> "histo_call"
      [] e = "run_kmc_subtract"  -> "subtract_call"
      [] e = "run_kmc_dump"      -> "dump_call"
      [] OTHER                   -> "idle"

InitLocals ==
    /\ scratch = [n \in 0..MaxRand |-> Absent]
    /\ outfiles = [o \in OutPaths |-> {}]
    /\ paths_list_file_path = [p \in Procs |-> NoPath]
    /\ temp_histogram_path = [p \in Procs |-> NoPath]
    /\ kmc_databases = [p \in Procs |-> << >>]
    /\ check_call_result = [p \in Procs |-> "none"]
    /\ invoked = [p \in Procs |-> << >>]
    /\ stderr = [p \in Procs |-> << >>]
    /\ outcome = [p \in Procs |-> NoOutcome]

\* One process runs one entry point on inputs drawn from the bounded sets.
Init ==
    /\ InitLocals
    /\ \E e \in Entries :
         /\ entry = [p \in Procs |-> IF p = 1 THEN e ELSE "none"]
         /\ pc = [p \in Procs |-> IF p = 1 THEN FirstPc(e) ELSE "idle"]
         /\ \E a \in (IF e = "main" THEN ArgSet ELSE {DefaultArgs}) :
              args = [p \in Procs |-> a]
         /\ hist = << >>
         /\ \E da \in (IF e \in {"run_kmc_subtract", "run_kmc_dump"} THEN Dbs ELSE {EmptyDb}),
               db \in (IF e = "run_kmc_subtract" THEN Dbs ELSE {EmptyDb}) :
              kdb = [d \in DbPaths |-> IF d = "haplotypeA" THEN da
                                       ELSE IF d = "haplotypeB" THEN db ELSE EmptyDb]
         /\ call \in
              CASE e = "run_kmc" ->
                     { [p \in Procs |-> [NoCall EXCEPT !.kmc_db = d]] : d \in {"haplotypeA", "haplotypeB"} }
                [] e = "analyze_histogram" ->
                     { [p \in Procs |-> [NoCall EXCEPT !.kmc_db = "haplotypeA"]] }
                [] e = "run_kmc_subtract" ->
                     { [p \in Procs |-> [NoCall EXCEPT !.kmc_db = ab[1], !.kmc_db_b = ab[2]]] :
                          ab \in {<<"haplotypeA", "haplotypeB">>, <<"haplotypeB", "haplotypeA">>} }
                [] e = "run_kmc_dump" ->
                     { [p \in Procs |-> [NoCall EXCEPT !.kmc_db = "haplotypeA",
                                                       !.out_path = "hapA_only_kmers.txt",
                                                       !.min_count = lo, !.max_count = hi]] :
                          lo \in 0..MaxKCount, hi \in 0..MaxKCount }
                [] OTHER -> { [p \in Procs |-> NoCall] }

\* ---------------------------------------------------------------- run_kmc
\* main, lines 237-243: announce the count of haplotype A and name its database.
MainCount(p) ==
    /\ pc[p] = "main_count"
    /\ stderr' = [stderr EXCEPT ![p] = Append(@, "Counting k-mers in haplotype A")]
    /\ call' = [call EXCEPT ![p].kmc_db = "haplotypeA"]
    /\ pc' = [pc EXCEPT ![p] = "kmc_write"]
    /\ UNCHANGED <<entry, args, hist, scratch, kdb, outfiles, paths_list_file_path,
                   temp_histogram_path, kmc_databases, check_call_result, invoked, outcome>>

\* run_kmc, lines 78-82: pick a random name and write the path list under it
\* (open(..., "w") creates the file or truncates the one already there).
KmcWrite(p) ==
    /\ pc[p] = "kmc_write"
    /\ \E infile_rand_int \in KmcRandLow..MaxRand :
         /\ paths_list_file_path' = [paths_list_file_path EXCEPT ![p] = infile_rand_int]
         /\ scratch' = [scratch EXCEPT ![infile_rand_int] = PathsList(p)]
    /\ pc' = [pc EXCEPT ![p] = "kmc_call"]
    /\ UNCHANGED <<entry, args, call, hist, kdb, outfiles, temp_histogram_path,
                   kmc_databases, check_call_result, invoked, stderr, outcome>>

\* run_kmc, lines 85-95: check_call(kmc_cmd) blocks until kmc has ended.  kmc
\* cannot succeed when its "@" list file is gone.
KmcCall(p) ==
    /\ pc[p] = "kmc_call"
    /\ \E res \in CheckCallResults :
         /\ scratch[paths_list_file_path[p]] = Absent => res # "ok"
         /\ check_call_result' = [check_call_result EXCEPT ![p] = res]
    /\ invoked' = [invoked EXCEPT ![p] = Append(@, KmcCmd(paths_list_file_path[p], call[p].kmc_db))]
    /\ pc' = [pc EXCEPT ![p] = "kmc_cleanup"]
    /\ UNCHANGED <<entry, args, call, hist, scratch, kdb, outfiles, paths_list_file_path,
                   temp_histogram_path, kmc_databases, stderr, outcome>>

\* KmcFinally as a clean-up placed after the try statement instead of in a
\* finally clause: the file is removed only when kmc succeeded.
KmcFinally_OnSuccessOnly(fs, path, res) ==
    IF res = "ok" THEN [fs EXCEPT ![path] = Absent] ELSE fs

\* run_kmc, lines 103-105: finally: os.remove(paths_list_file_path), whatever res.
KmcFinally(fs, path, res) == [fs EXCEPT ![path] = Absent]

\* KmcNextPc with a retry: a kmc that exited non-zero is run again.
KmcNextPc_Retry(e, kind) ==
    IF kind = "CalledProcessError" THEN "kmc_write"
    ELSE IF kind = "none" /\ e = "main" THEN "main_range" ELSE "done"

\* Where control goes after run_kmc: an exception leaves run_kmc and, uncaught
\* in main (lines 244-251), ends the run; a return continues main at line 254.
KmcNextPc(e, kind) == IF kind = "none" /\ e = "main" THEN "main_range" ELSE "done"

\* run_kmc, lines 96-105: the except clause, then the finally clause.
KmcCleanup(p) ==
    /\ pc[p] = "kmc_cleanup"
    /\ LET res     == check_call_result[p]
           path    == paths_list_file_path[p]
           pending == CASE res = "notfound" -> SystemExit(ExitStatus)
                        [] res = "nonzero"  -> Raised("CalledProcessError")
                        [] OTHER            -> NoOutcome
           \* os.remove of a file that is no longer there raises FileNotFoundError,
           \* which replaces the exception in flight
           final   == IF scratch[path] = Absent THEN Raised("FileNotFoundError") ELSE pending
       IN  /\ stderr' = [stderr EXCEPT ![p] = IF res = "notfound"
                                              THEN Append(@, "Cannot execute kmc") ELSE @]
           /\ scratch' = KmcFinally(scratch, path, res)
           /\ outcome' = [outcome EXCEPT ![p] =
                            IF final.kind = "none" /\ entry[p] = "run_kmc"
                            THEN Outcome("return", 0, 0, NoCmd, "", 0 - 1, 0 - 1)
                            ELSE final]
           /\ pc' = [pc EXCEPT ![p] = KmcNextPc(entry[p], final.kind)]
    /\ UNCHANGED <<entry, args, call, hist, kdb, outfiles, paths_list_file_path,
                   temp_histogram_path, kmc_databases, check_call_result, invoked>>

\* main, line 254: if(args.l == args.u == 0).  The Namespace has count_lower
\* and count_upper but neither l nor u, so evaluating args.l raises
\* AttributeError, which nothing catches: lines 255-309 are never reached.
MainRange(p) ==
    /\ pc[p] = "main_range"
    /\ ~({"l", "u"} \subseteq NamespaceAttrs)
    /\ outcome' = [outcome EXCEPT ![p] = Raised("AttributeError")]
    /\ pc' = [pc EXCEPT ![p] = "done"]
    /\ UNCHANGED <<entry, args, call, hist, scratch, kdb, outfiles, paths_list_file_path,
                   temp_histogram_path, kmc_databases, check_call_result, invoked, stderr>>

\* ------------------------------------------------------ analyze_histogram
\* analyze_histogram, lines 124-132: pick a random name, run the histogram
\* tool on it.  A tool that succeeds has written the database's histogram
\* (hist, any histogram of the data model); one that exits non-zero may or may
\* not have left a file.
HistoCall(p) ==
    /\ pc[p] = "histo_call"
    /\ \E r \in HistoRandLow..MaxRand, res \in CheckCallResults :
         /\ temp_histogram_path' = [temp_histogram_path EXCEPT ![p] = r]
         /\ invoked' = [invoked EXCEPT ![p] = Append(@, HistoCmd(call[p].kmc_db, r))]
         /\ check_call_result' = [check_call_result EXCEPT ![p] = res]
         /\ \/ /\ res = "ok"
               /\ \E n \in 0..MaxLen, s \in 0..MaxStart :
                    \E g \in [1..(n - 1) -> Gaps], c \in [1..n -> 0..MaxCnt] :
                       hist' = HistogramOf(n, s, g, c)
               /\ scratch' = [scratch EXCEPT ![r] = HistoFile(p)]
               /\ pc' = [pc EXCEPT ![p] = "histo_scan"]
               /\ UNCHANGED outcome
            \/ /\ res = "nonzero"
               /\ \E wrote \in BOOLEAN :
                    scratch' = IF wrote THEN [scratch EXCEPT ![r] = HistoFile(p)] ELSE scratch
               /\ outcome' = [outcome EXCEPT ![p] = Raised("CalledProcessError")]
               /\ pc' = [pc EXCEPT ![p] = "done"]
               /\ UNCHANGED hist
            \/ /\ res = "notfound"
               /\ outcome' = [outcome EXCEPT ![p] = Raised("FileNotFoundError")]
               /\ pc' = [pc EXCEPT ![p] = "done"]
               /\ UNCHANGED <<scratch, hist>>
    /\ UNCHANGED <<entry, args, call, kdb, outfiles, paths_list_file_path,
                   kmc_databases, stderr>>

\* analyze_histogram, lines 135-170: scan the file, raise or return, and
\* remove the file only on the branch of line 168.
HistoAnalyze(p) ==
    /\ pc[p] = "histo_scan"
    /\ LET path == temp_histogram_path[p]
           st   == Scan(IF scratch[path].kind = "histogram" THEN hist ELSE << >>)
       IN  IF ~Truthy(st.min_coverage) \/ ~Truthy(st.max_coverage)
           THEN /\ outcome' = [outcome EXCEPT ![p] = HistogramError(HistoCmd(call[p].kmc_db, path))]
                /\ UNCHANGED <<scratch, stderr>>
           ELSE /\ outcome' = [outcome EXCEPT ![p] =
                       Outcome("return", st.min_coverage, st.max_coverage, NoCmd, "", 0 - 1, 0 - 1)]
                /\ IF st.max_coverage - st.min_coverage < NarrowGap
                   THEN /\ stderr' = [stderr EXCEPT ![p] =
                               Append(@, "WARNING: min and max coverage not very far apart")]
                        /\ UNCHANGED scratch
                   ELSE /\ scratch' = [scratch EXCEPT ![path] = Absent]
                        /\ UNCHANGED stderr
    /\ pc' = [pc EXCEPT ![p] = "done"]
    /\ UNCHANGED <<entry, args, call, hist, kdb, outfiles, paths_list_file_path,
                   temp_histogram_path, kmc_databases, check_call_result, invoked>>

\* ------------------------------------------- run_kmc_subtract, run_kmc_dump
\* out_path = kmc_db_a + "_only"
OnlyPath(a) == IF a = "haplotypeA" THEN "haplotypeA_only" ELSE "haplotypeB_only"

\* kmc_tools simple a b kmers_subtract out: the k-mers of a that b does not
\* have, each with its count in a.
KmersSubtract(a, b) == [k \in Kmers |-> IF b[k] = 0 THEN a[k] ELSE 0]

\* kmc_dump -ci<lo> -cx<hi> db out: the k-mers of db whose count is in lo..hi.
KmcDump(db, lo, hi) == { k \in Kmers : db[k] > 0 /\ lo <= db[k] /\ db[k] <= hi }

\* run_kmc_subtract, lines 189-199.
SubtractCall(p) ==
    /\ pc[p] = "subtract_call"
    /\ LET a        == call[p].kmc_db
           b        == call[p].kmc_db_b
           out_path == OnlyPath(a)
       IN  /\ invoked' = [invoked EXCEPT ![p] = Append(@, SubtractCmd(a, b, out_path))]
           /\ \E res \in CheckCallResults :
                /\ check_call_result' = [check_call_result EXCEPT ![p] = res]
                /\ \/ /\ res = "ok"
                      /\ kdb' = [kdb EXCEPT ![out_path] = KmersSubtract(kdb[a], kdb[b])]
                      /\ outcome' = [outcome EXCEPT ![p] =
                             Outcome("return", 0, 0, NoCmd, out_path, 0 - 1, 0 - 1)]
                   \/ /\ res = "nonzero"
                      /\ outcome' = [outcome EXCEPT ![p] = Raised("CalledProcessError")]
                      /\ UNCHANGED kdb
                   \/ /\ res = "notfound"
                      /\ outcome' = [outcome EXCEPT ![p] = Raised("FileNotFoundError")]
                      /\ UNCHANGED kdb
    /\ pc' = [pc EXCEPT ![p] = "done"]
    /\ UNCHANGED <<entry, args, call, hist, scratch, outfiles, paths_list_file_path,
                   temp_histogram_path, kmc_databases, stderr>>

\* run_kmc_dump, lines 225-229: num_lines counts the lines of the file, one by one.
RECURSIVE NumLines(_)
NumLines(f) == IF f = {} THEN 0 ELSE 1 + NumLines(f \ {CHOOSE x \in f : TRUE})

\* run_kmc_dump, lines 216-229: kmc_dump acts on the command it is given (its
\* database, its bounds, its output path); the function then opens out_path
\* and counts the lines.
DumpCall(p) ==
    /\ pc[p] = "dump_call"
    /\ LET c        == call[p]
           dump_cmd == DumpCmd(c.kmc_db, c.out_path, c.min_count, c.max_count)
       IN  /\ invoked' = [invoked EXCEPT ![p] = Append(@, dump_cmd)]
           /\ \E res \in CheckCallResults :
                /\ check_call_result' = [check_call_result EXCEPT ![p] = res]
                /\ \/ /\ res = "ok"
                      /\ outfiles' = [outfiles EXCEPT ![dump_cmd.out] =
                                        KmcDump(kdb[dump_cmd.db], dump_cmd.lo, dump_cmd.hi)]
                      /\ outcome' = [outcome EXCEPT ![p] =
                             Outcome("return", 0, 0, NoCmd, "", NumLines(outfiles'[c.out_path]), 0 - 1)]
                   \/ /\ res = "nonzero"
                      /\ outcome' = [outcome EXCEPT ![p] = Raised("CalledProcessError")]
                      /\ UNCHANGED outfiles
                   \/ /\ res = "notfound"
                      /\ outcome' = [outcome EXCEPT ![p] = Raised("FileNotFoundError")]
                      /\ UNCHANGED outfiles
    /\ pc' = [pc EXCEPT ![p] = "done"]
    /\ UNCHANGED <<entry, args, call, hist, scratch, kdb, paths_list_file_path,
                   temp_histogram_path, kmc_databases, stderr>>

\* ------------------------------------------------------------------- Next
Next ==
    \E p \in Procs :
        \/ MainCount(p)
        \/ KmcWrite(p)
        \/ KmcCall(p)
        \/ KmcCleanup(p)
        \/ MainRange(p)
        \/ HistoCall(p)
        \/ HistoAnalyze(p)
        \/ SubtractCall(p)
        \/ DumpCall(p)

Spec == Init /\ [][Next]_vars

\* Two pipeline invocations (two runs of main) that share one scratch directory.
InitConc ==
    /\ InitLocals
    /\ entry = [p \in Procs |-> "main"]
    /\ pc = [p \in Procs |-> "main_count"]
    /\ args \in { [p \in Procs |-> a] : a \in ArgSet }
    /\ hist = << >>
    /\ kdb = [d \in DbPaths |-> EmptyDb]
    /\ call = [p \in Procs |-> NoCall]

NextConc ==
    \E p \in Procs :
        \/ MainCount(p)
        \/ KmcWrite(p)
        \/ KmcCall(p)
        \/ KmcCleanup(p)
        \/ MainRange(p)

SpecConc == InitConc /\ [][NextConc]_vars

\* =================================================================== claims
Printed(p, msg) == \E i \in DOMAIN stderr[p] : stderr[p][i] = msg
Ran(p, tool)    == \E i \in DOMAIN invoked[p] : invoked[p][i].tool = tool

\* analyze_histogram has read the histogram hist and ended.
Analyzed(p) ==
    entry[p] = "analyze_histogram" /\ pc[p] = "done" /\ check_call_result[p] = "ok"

\* The counts of h strictly decrease to the trough at line t, strictly increase
\* to line k, then strictly decrease to line m, the first line whose count is
\* below the trough's.
ShapeAt(h, t, k, m) ==
    /\ 1 < t /\ t < k /\ k < m /\ m <= Len(h)
    /\ \A i \in 1..(t - 1) : Cnt(h, i) > Cnt(h, i + 1)
    /\ \A i \in t..(k - 1) : Cnt(h, i) < Cnt(h, i + 1)
    /\ \A i \in k..(m - 1) : Cnt(h, i) > Cnt(h, i + 1) /\ Cnt(h, i) >= Cnt(h, t)
    /\ Cnt(h, m) < Cnt(h, t)

ReturnsRange(p, lo, hi) ==
    outcome[p].kind = "return" /\ outcome[p].min = lo /\ outcome[p].max = hi

\* C1 (as stated): for every histogram of the data model with the
\* decrease / increase / decrease-below-the-trough shape, analyze_histogram
\* returns (coverage of the trough line, coverage of the first later line whose
\* count is below the trough's count).
C1_TurningPoints_AnyHistogram ==
    \A p \in Procs : Analyzed(p) =>
        \A t \in 1..Len(hist), k \in 1..Len(hist), m \in 1..Len(hist) :
            ShapeAt(hist, t, k, m) => ReturnsRange(p, Cov(hist, t), Cov(hist, m))

\* The histograms on which "coverage - 1" is the trough's coverage and the
\* first line does not pass for a turning point: the first coverage is 1 or 2
\* and the line after the trough has the next integer coverage.
KmcLike(h, t) == Cov(h, 1) \in {1, 2} /\ Cov(h, t + 1) = Cov(h, t) + 1

\* C1 (amended): the same, for the histograms of that shape whose first
\* coverage is 1 or 2 and whose line after the trough has the trough's
\* coverage plus one.
C1_TurningPoints ==
    \A p \in Procs : Analyzed(p) =>
        \A t \in 1..Len(hist), k \in 1..Len(hist), m \in 1..Len(hist) :
            (ShapeAt(hist, t, k, m) /\ KmcLike(hist, t))
                => ReturnsRange(p, Cov(hist, t), Cov(hist, m))

C1_Witness ==
    \E p \in Procs :
        /\ Analyzed(p)
        /\ \E t \in 1..Len(hist), k \in 1..Len(hist), m \in 1..Len(hist) :
             /\ ShapeAt(hist, t, k, m) /\ KmcLike(hist, t)
             /\ Cov(hist, m) > Cov(hist, k) + 1
             /\ ReturnsRange(p, Cov(hist, t), Cov(hist, m))

\* Line i of h is the first whose count is above the count of the line before.
FirstRise(h, i) ==
    /\ i \in 2..Len(h) /\ Cnt(h, i) > Cnt(h, i - 1)
    /\ \A j \in 2..(i - 1) : Cnt(h, j) <= Cnt(h, j - 1)

\* A turning point is missing: no rise, or no drop below the trough after the
\* first rise.
MissingTurn(h) ==
    \/ \A i \in 2..Len(h) : Cnt(h, i) <= Cnt(h, i - 1)
    \/ \E i \in 2..Len(h) :
         FirstRise(h, i) /\ \A j \in (i + 1)..Len(h) : Cnt(h, j) >= Cnt(h, i - 1)

\* The same, a rise at the line for coverage 2 not counting as a rise.
FirstRiseSkip2(h, i) ==
    /\ i \in 2..Len(h) /\ Cov(h, i) # SkipCoverage /\ Cnt(h, i) > Cnt(h, i - 1)
    /\ \A j \in 2..(i - 1) : Cov(h, j) # SkipCoverage => Cnt(h, j) <= Cnt(h, j - 1)

MissingTurnSkip2(h) ==
    \/ \A i \in 2..Len(h) : Cov(h, i) # SkipCoverage => Cnt(h, i) <= Cnt(h, i - 1)
    \/ \E i \in 2..Len(h) :
         FirstRiseSkip2(h, i) /\ \A j \in (i + 1)..Len(h) : Cnt(h, j) >= Cnt(h, i - 1)

RaisesHistogramError(p) ==
    /\ outcome[p].kind = "HistogramError"
    /\ outcome[p].cmd = HistoCmd(call[p].kmc_db, temp_histogram_path[p])

\* C3 (as stated): on every histogram in which the count never rises above the
\* preceding line's count, or never drops below the trough's count after the
\* first rise, analyze_histogram raises HistogramError carrying histo_cmd.
C3_MissingTurn_AnyRise ==
    \A p \in Procs : (Analyzed(p) /\ MissingTurn(hist)) => RaisesHistogramError(p)

\* C3 (amended): the same, where a rise at the line for coverage 2 does not
\* count as a rise.
C3_MissingTurn ==
    \A p \in Procs : (Analyzed(p) /\ MissingTurnSkip2(hist)) => RaisesHistogramError(p)

C3_Witness ==
    \E p \in Procs :
        /\ Analyzed(p)
        /\ \E i \in 2..Len(hist) :
             /\ FirstRiseSkip2(hist, i) /\ i < Len(hist)
             /\ \A j \in (i + 1)..Len(hist) : Cnt(hist, j) >= Cnt(hist, i - 1)
        /\ RaisesHistogramError(p)

\* ------------------------------------------------------------- main, C2, C4
HistoTool == "kmc_tools transform histogram"
NotHisto(c) == c.tool # HistoTool

\* main has ended and every external command it started succeeded.
MainEndedAllOk(p) ==
    entry[p] = "main" /\ pc[p] = "done" /\ check_call_result[p] = "ok"

\* C2: in main the range of a library comes from analyze_histogram exactly when
\* count_lower and count_upper are both 0, and is otherwise exactly the
\* supplied pair, the histogram tool not being run.  Stated of library A, once
\* main has counted it and gone on.
C2_RangeSelection ==
    \A p \in Procs : MainEndedAllOk(p) =>
        LET auto == args[p].count_lower = 0 /\ args[p].count_upper = 0
        IN  /\ Len(kmc_databases[p]) >= 1
            /\ auto <=> Ran(p, HistoTool)
            /\ ~auto => kmc_databases[p][1] =
                           <<"haplotypeA", args[p].count_lower, args[p].count_upper>>

\* C4: a run of main in which every external command succeeds and no
\* HistogramError is raised runs COUNT(A), RANGE(A), COUNT(B), RANGE(B),
\* SUBTRACT(A-B), DUMP(A), SUBTRACT(B-A), DUMP(B), REPORT once each in that
\* order and is then done.  (RANGE runs no command when the range is supplied,
\* so the histogram commands are set aside before the order is compared.)
C4_StageOrder ==
    \A p \in Procs : (MainEndedAllOk(p) /\ outcome[p].kind # "HistogramError") =>
        LET s == SelectSeq(invoked[p], NotHisto)
        IN  /\ Len(s) = 6
            /\ s[1].tool = "kmc" /\ s[1].db = "haplotypeA"
            /\ s[2].tool = "kmc" /\ s[2].db = "haplotypeB"
            /\ s[3] = SubtractCmd("haplotypeA", "haplotypeB", "haplotypeA_only")
            /\ s[4].tool = "kmc_dump" /\ s[4].db = "haplotypeA_only"
            /\ s[5] = SubtractCmd("haplotypeB", "haplotypeA", "haplotypeB_only")
            /\ s[6].tool = "kmc_dump" /\ s[6].db = "haplotypeB_only"
            /\ Printed(p, "# of unique k-mers in haplotype A")
            /\ outcome[p].kind = "return"

\* ------------------------------------------------------------- run_kmc, C5
\* run_kmc was called by p and has ended (returned, raised or exited).
KmcEnded(p) ==
    /\ entry[p] \in {"run_kmc", "main"}
    /\ paths_list_file_path[p] # NoPath
    /\ pc[p] \notin {"kmc_call", "kmc_cleanup"}

\* C5: after run_kmc has ended, the path-list file it created does not exist,
\* whether kmc succeeded, exited non-zero or could not be found.
C5_PathListRemoved ==
    \A p \in Procs : KmcEnded(p) => scratch[paths_list_file_path[p]] = Absent

C5_Witness ==
    \E p \in Procs :
        /\ KmcEnded(p) /\ check_call_result[p] \in {"nonzero", "notfound"}
        /\ outcome[p].kind \in {"CalledProcessError", "SystemExit"}
        /\ scratch[paths_list_file_path[p]] = Absent

\* ------------------------------------------------------------------ C6, C7
\* C6: a run whose external executable could not be found prints a diagnostic
\* and ends with exit status 1 (SystemExit(1)), not with the raw
\* FileNotFoundError.
C6_MissingBinaryDiagnosed ==
    \A p \in Procs : (pc[p] = "done" /\ check_call_result[p] = "notfound") =>
        /\ outcome[p].kind = "SystemExit" /\ outcome[p].status = ExitStatus
        /\ Len(stderr[p]) > 0 /\ stderr[p][Len(stderr[p])] = "Cannot execute kmc"

\* A stage of p has failed: an external command did not succeed, or the range
\* analysis raised HistogramError.
Failed(p) ==
    \/ check_call_result[p] \in {"nonzero", "notfound"}
    \/ outcome[p].kind = "HistogramError"

\* C7: once a stage has failed, the run starts no further external command
\* (neither a later stage's nor the failed one again) and never prints the
\* summary report.
C7_FailureIsFatal ==
    [][\A p \in Procs : Failed(p) =>
          /\ invoked'[p] = invoked[p]
          /\ \A i \in DOMAIN stderr'[p] : stderr'[p][i] # "# of unique k-mers in haplotype A"]_vars

C7_Witness ==
    \E p \in Procs :
        /\ entry[p] = "main" /\ pc[p] = "done"
        /\ check_call_result[p] = "nonzero" /\ outcome[p].kind = "CalledProcessError"
        /\ Len(invoked[p]) = 1

\* ----------------------------------------------------------------------- C8
\* C8: when analyze_histogram has ended, its histogram file is on disk exactly
\* when it returned a range with max_coverage - min_coverage < 5, and in that
\* case the warning was printed.
C8_HistogramFileKeptIffNarrow ==
    \A p \in Procs : (entry[p] = "analyze_histogram" /\ pc[p] = "done") =>
        LET narrow == outcome[p].kind = "return"
                      /\ outcome[p].max - outcome[p].min < NarrowGap
        IN  /\ (scratch[temp_histogram_path[p]] # Absent) <=> narrow
            /\ narrow => Printed(p, "WARNING: min and max coverage not very far apart")

\* ----------------------------------------------------------------------- C9
\* C9: with two invocations on one scratch directory, the path-list file of
\* an invocation holds that invocation's own list for as long as its run_kmc
\* uses it (not overwritten, not removed by the other), and no invocation fails
\* on a temporary file the other took away.
C9_NoTempFileInterference ==
    \A p \in Procs :
        /\ pc[p] \in {"kmc_call", "kmc_cleanup"}
              => scratch[paths_list_file_path[p]] = PathsList(p)
        /\ outcome[p].kind # "FileNotFoundError"

\* ---------------------------------------------------------------------- C11
\* run_kmc_dump has run kmc_dump successfully and returned.
Dumped(p) ==
    entry[p] = "run_kmc_dump" /\ pc[p] = "done" /\ check_call_result[p] = "ok"

\* The k-mers of the database at path db whose count is in lo..hi, both ends
\* included.
InRange(db, lo, hi) == { k \in Kmers : kdb[db][k] >= 1 /\ lo <= kdb[db][k] /\ kdb[db][k] <= hi }

\* C11: run_kmc_dump(db, out, min_count, max_count) gives min_count and
\* max_count to kmc_dump as its lower and upper bound, and returns the number
\* of lines of out, which is the number of k-mers of db whose count c has
\* min_count <= c <= max_count.
C11_DumpCountsInRange ==
    \A p \in Procs : Dumped(p) =>
        LET c == call[p]
        IN  /\ invoked[p] = << DumpCmd(c.kmc_db, c.out_path, c.min_count, c.max_count) >>
            /\ invoked[p][1].lo = c.min_count /\ invoked[p][1].hi = c.max_count
            /\ outfiles[c.out_path] = InRange(c.kmc_db, c.min_count, c.max_count)
            /\ outcome[p].kind = "return"
            /\ outcome[p].num = Cardinality(InRange(c.kmc_db, c.min_count, c.max_count))

\* Every k-mer of the database has the count min_count = max_count, and the
\* function returned their number.
C11_Witness ==
    \E p \in Procs :
        /\ Dumped(p)
        /\ call[p].min_count = call[p].max_count /\ call[p].min_count >= 1
        /\ \A k \in Kmers : kdb[call[p].kmc_db][k] = call[p].min_count
        /\ outcome[p].num = Cardinality(Kmers)

\* ---------------------------------------------------------------------- C12
\* What analyze_histogram ends with on the lines it read (lines 157-170):
\* HistogramError, or the pair it returns.
ResultOf(lines) ==
    LET st == Scan(lines)
    IN  IF ~Truthy(st.min_coverage) \/ ~Truthy(st.max_coverage)
        THEN <<"HistogramError", 0, 0>>
        ELSE <<"return", st.min_coverage, st.max_coverage>>

\* The histogram h with the count of line i replaced by v.
WithCount(h, i, v) == [h EXCEPT ![i] = <<Cov(h, i), v>>]

\* C12 (as stated): two histograms that differ only in the count at coverage 2
\* give the same outcome (the same pair, or HistogramError in both).
C12_IndependentOfCoverage2 ==
    \A p \in Procs : Analyzed(p) =>
        \A i \in 1..Len(hist), v \in 0..MaxCnt :
            Cov(hist, i) = SkipCoverage =>
                ResultOf(WithCount(hist, i, v))
                    = <<outcome[p].kind, outcome[p].min, outcome[p].max>>

\* C12 (amended): in two histograms that differ only in the count at coverage
\* 2, the line for coverage 2 triggers neither phase transition: once it has
\* been read, min_coverage and max_coverage are what they were before it,
\* whatever its count, which is only recorded as last_count.
C12_Coverage2TriggersNothing ==
    \A p \in Procs : Analyzed(p) =>
        \A i \in 1..Len(hist), v \in 0..MaxCnt :
            Cov(hist, i) = SkipCoverage =>
                LET before == Scan(SubSeq(hist, 1, i - 1))
                    after  == Scan(SubSeq(WithCount(hist, i, v), 1, i))
                IN  /\ after.min_coverage = before.min_coverage
                    /\ after.max_coverage = before.max_coverage
                    /\ after.last_count = v

\* A histogram whose line for coverage 2 has a count above the line before it
\* (a rise, were the line compared) has been analysed.
C12_Witness ==
    \E p \in Procs :
        /\ Analyzed(p)
        /\ \E i \in 2..Len(hist) :
             /\ Cov(hist, i) = SkipCoverage /\ Cnt(hist, i) > Cnt(hist, i - 1)
             /\ i < Len(hist)
        /\ outcome[p].kind = "return"

\* ---------------------------------------------------------------------- C15
\* C15: a range that analyze_histogram returns has min_coverage >= 2 and
\* max_coverage >= min_coverage + 2, so min_count < max_count.
C15_ReturnedRangeWellFormed ==
    \A p \in Procs : (Analyzed(p) /\ outcome[p].kind = "return") =>
        /\ outcome[p].min >= 2
        /\ outcome[p].max >= outcome[p].min + 2
        /\ outcome[p].min < outcome[p].max

\* The tightest range has been returned: min_coverage = 2, max_coverage = 4.
C15_Witness ==
    \E p \in Procs :
        /\ Analyzed(p) /\ outcome[p].kind = "return"
        /\ outcome[p].min = 2 /\ outcome[p].max = 4

====
